---- MODULE Spec2Model ----
(***************************************************************************)
(* Model of the MySQL console client in src/src/main.rs: the interactive   *)
(* read loop of main, MySQLClient::execute_query with its four handlers    *)
(* (status, clear, USE, forwarded statement), show_status and the table    *)
(* builder.  Text is modelled as sequences of one-character strings so     *)
(* that trim, to_lowercase, starts_with, ends_with and trim_matches are    *)
(* computed the way the Rust standard library computes them.               *)
(***************************************************************************)
EXTENDS Integers, Sequences, FiniteSets, TLC

VARIABLES
    pc,             \* "start" | "loop" | "done": position in main
    query_buffer,   \* main's query_buffer (sequence of characters)
    current_db,     \* client.current_db: <<>> is None, <<name>> is Some(name)
    use_colors,     \* client.use_colors
    host,           \* client.host
    port,           \* client.port
    conn_affected,  \* what client.conn.affected_rows() returns right now
    out,            \* the lines written by the last step, in order
    last,           \* record of what the last step did (call, outcome)
    pending,        \* history: the lines read since the buffer was last emptied
    nRead,          \* history: number of lines read by rl.readline
    nTerminated,    \* history: number of lines read whose trimmed text ends with ;
    nDispatch       \* history: number of execute_query calls made by the loop

vars == <<pc, query_buffer, current_db, use_colors, host, port, conn_affected,
          out, last, pending, nRead, nTerminated, nDispatch>>

(***************************************************************************)
(* Bounds of the model.                                                    *)
(***************************************************************************)
MaxReads == 3       \* lines read in one session
MaxBuf == 12        \* longest query_buffer the model follows
MaxAffected == 2    \* largest affected-row count the server reports
MaxCells == 2       \* most cells (columns x rows) in a result set

(***************************************************************************)
(* Text.                                                                   *)
(***************************************************************************)
S_status == <<"s", "t", "a", "t", "u", "s">>
S_clear == <<"c", "l", "e", "a", "r">>
S_bsc == <<"\\", "c">>
S_use == <<"u", "s", "e", " ">>

\* char::is_whitespace, over the characters the model uses
IsWhitespace(c) == c \in {" ", "\t"}

\* char::to_lowercase, over the characters the model uses
UpperToLower ==
    ("U" :> "u") @@ ("S" :> "s") @@ ("E" :> "e") @@ ("T" :> "t") @@ ("A" :> "a")
    @@ ("C" :> "c") @@ ("L" :> "l") @@ ("R" :> "r") @@ ("Q" :> "q")

LowerChar(c) == IF c \in DOMAIN UpperToLower THEN UpperToLower[c] ELSE c

\* str::to_lowercase
ToLowercase(s) == [i \in 1..Len(s) |-> LowerChar(s[i])]

RECURSIVE TrimStart(_)
\* str::trim_start
TrimStart(s) ==
    IF s # <<>> /\ IsWhitespace(Head(s)) THEN TrimStart(Tail(s)) ELSE s

RECURSIVE TrimEnd(_)
\* str::trim_end
TrimEnd(s) ==
    IF s # <<>> /\ IsWhitespace(s[Len(s)])
    THEN TrimEnd(SubSeq(s, 1, Len(s) - 1))
    ELSE s

\* str::trim
Trim(s) == TrimEnd(TrimStart(s))

RECURSIVE TrimStartMatches(_, _)
TrimStartMatches(s, c) ==
    IF s # <<>> /\ Head(s) = c THEN TrimStartMatches(Tail(s), c) ELSE s

RECURSIVE TrimEndMatches(_, _)
TrimEndMatches(s, c) ==
    IF s # <<>> /\ s[Len(s)] = c
    THEN TrimEndMatches(SubSeq(s, 1, Len(s) - 1), c)
    ELSE s

\* str::trim_matches(char): every leading and every trailing c is removed
TrimMatches(s, c) == TrimEndMatches(TrimStartMatches(s, c), c)

\* str::starts_with(&str)
StartsWith(s, p) == Len(s) >= Len(p) /\ SubSeq(s, 1, Len(p)) = p

\* str::ends_with(char)
EndsWithChar(s, c) == s # <<>> /\ s[Len(s)] = c

\* &s[n..]
From(s, n) == SubSeq(s, n + 1, Len(s))

(***************************************************************************)
(* The database executor (mysql::Conn), seen from its call sites.  What    *)
(* the server answers is an input of the model.                            *)
(***************************************************************************)
ServerError == "server error"

\* Result<Option<String>> of conn.query_first(..)
VersionText == <<"8">>
CharsetText == <<"u", "t", "f">>
LookupResults(text) ==
    {[r |-> "err", v |-> <<>>], [r |-> "none", v |-> <<>>], [r |-> "some", v |-> text]}

\* Option<String>::unwrap_or_default
UnwrapOrDefault(l) == IF l.r = "some" THEN l.v ELSE <<>>

\* conn.affected_rows() after a command that carried no affected-row count of
\* its own (a lookup, a database switch, a result set, an error): the count of
\* the last OK packet is either kept or reset by the connection
ConnAfterOther(aff) == {aff, 0}

(***************************************************************************)
(* Output lines.                                                           *)
(***************************************************************************)
\* msg.green() when use_colors, else msg
Green(colors) == IF colors THEN "green" ELSE "plain"

\* format!("Error: {}", e).bright_red() when use_colors
BrightRed(colors) == IF colors THEN "bright_red" ELSE "plain"

DatabaseChangedLine(db, colors) ==
    [stream |-> "stdout", kind |-> "DatabaseChanged", db |-> db, style |-> Green(colors)]

\* if affected_rows == 1 { "row" } else { "rows" }
RowWord(n) == IF n = 1 THEN "row" ELSE "rows"

QueryOkLine(n, colors) ==
    [stream |-> "stdout", kind |-> "QueryOK", n |-> n, word |-> RowWord(n),
     style |-> Green(colors)]

\* the lines execute_query prints for a statement without column metadata
NonQueryOutput(affected_rows, colors) ==
    IF affected_rows > 0 THEN <<QueryOkLine(affected_rows, colors)>> ELSE <<>>

ClearScreenLine == [stream |-> "stdout", kind |-> "ClearScreen"]

(***************************************************************************)
(* MySQLClient::execute_query.  A client is the record of the fields of    *)
(* MySQLClient; an outcome is the client after the call, what the call     *)
(* returned and printed, and what it asked of the executor.                *)
(***************************************************************************)
Client == [current_db |-> current_db, use_colors |-> use_colors, host |-> host,
           port |-> port, conn_affected |-> conn_affected]

Outcome(kind, query, c, ret, printed) ==
    [kind |-> kind, query |-> query, client |-> c, ret |-> ret, printed |-> printed,
     db |-> <<>>, switched |-> FALSE, forwarded |-> <<>>, stmtAffected |-> -1,
     lookups |-> <<>>, err |-> "", result |-> <<>>, max_widths |-> <<>>]

\* the label/value rows show_status adds, in order
StatusTable(c, version, charset) ==
    << [label |-> "Server version:", value |-> version],
       [label |-> "Server:", value |-> <<c.host, ":", c.port>>],
       [label |-> "Current database:",
        value |-> IF c.current_db = <<>> THEN <<"N", "o", "n", "e">>
                  ELSE c.current_db[1]],
       [label |-> "Character set:", value |-> charset] >>

\* MySQLClient::show_status
ShowStatus(c, query) ==
    LET failed(lks, c2) ==
            [Outcome("status", query, c2, "Err", <<>>) EXCEPT
                !.lookups = lks, !.err = ServerError]
    IN UNION { UNION {
        IF v.r = "err"
        THEN {failed(<<"version">>, [c EXCEPT !.conn_affected = a1])}
        ELSE UNION { UNION {
            LET c2 == [c EXCEPT !.conn_affected = a2] IN
            IF cs.r = "err"
            THEN {failed(<<"version", "charset">>, c2)}
            ELSE {[Outcome("status", query, c2, "OkSome", <<>>) EXCEPT
                      !.lookups = <<"version", "charset">>,
                      !.result = <<[table |-> StatusTable(c, UnwrapOrDefault(v),
                                                          UnwrapOrDefault(cs)),
                                    summary |-> <<>>, cols |-> <<>>,
                                    rows |-> <<>>]>>]}
            : a2 \in ConnAfterOther(a1) } : cs \in LookupResults(CharsetText) }
        : a1 \in ConnAfterOther(c.conn_affected) } : v \in LookupResults(VersionText) }

\* the "clear" | "\\c" arm
ClearScreen(c, query) == {Outcome("clear", query, c, "OkNone", <<ClearScreenLine>>)}

\* query.trim()[4..].trim().trim_matches(';')
DbName(query) == TrimMatches(Trim(From(Trim(query), 4)), ";")

\* an assignment made before the result of select_db is looked at
AssignCurrentDb_Always(c, db, ok) == [c EXCEPT !.current_db = <<db>>]

\* the result of conn.select_db(db) decides whether current_db is assigned
AssignCurrentDb(c, db, ok) == IF ok THEN [c EXCEPT !.current_db = <<db>>] ELSE c

\* the USE arm
SelectDatabase(c, query) ==
    LET db == DbName(query) IN
    UNION { {
        LET c2 == [AssignCurrentDb(c, db, ok) EXCEPT !.conn_affected = a] IN
        IF ok
        THEN [Outcome("use", query, c2, "OkNone",
                      <<DatabaseChangedLine(db, c.use_colors)>>) EXCEPT
                 !.db = db, !.switched = TRUE]
        ELSE [Outcome("use", query, c2, "Err", <<>>) EXCEPT
                 !.db = db, !.err = ServerError]
        : a \in ConnAfterOther(c.conn_affected) } : ok \in BOOLEAN }

(***************************************************************************)
(* Cell slots and their rendering.  A slot is what row.get_opt(i) yields:  *)
(* None (absent), Some(Err(_)) (error) or Some(Ok(value)).                 *)
(***************************************************************************)
Slot(shape, v) == [shape |-> shape, v |-> v]

Digit(d) == <<"0", "1", "2", "3", "4", "5", "6", "7", "8", "9">>[d + 1]

RECURSIVE NatToStr(_)
\* u64::to_string
NatToStr(n) == IF n < 10 THEN <<Digit(n)>> ELSE NatToStr(n \div 10) \o <<Digit(n % 10)>>

\* i64::to_string
IntToStr(n) == IF n < 0 THEN <<"-">> \o NatToStr(-n) ELSE NatToStr(n)

RECURSIVE Zeros(_)
Zeros(k) == IF k <= 0 THEN <<>> ELSE <<"0">> \o Zeros(k - 1)

\* "{:0w}" of an unsigned field: padded with zeros up to w, never truncated
Pad(n, w) == Zeros(w - Len(NatToStr(n))) \o NatToStr(n)

\* f32::to_string / f64::to_string of the value h/2 (h an integer)
HalvesToStr(h) ==
    LET a == IF h < 0 THEN -h ELSE h
        sign == IF h < 0 THEN <<"-">> ELSE <<>>
    IN IF a % 2 = 0 THEN sign \o NatToStr(a \div 2)
       ELSE sign \o NatToStr(a \div 2) \o <<".", "5">>

ReplacementChar == "U+FFFD"

\* String::from_utf8_lossy over bytes that are ASCII letters or invalid (>= 128)
FromUtf8Lossy(bytes) ==
    [i \in 1..Len(bytes) |->
        IF bytes[i] = 97 THEN "a"
        ELSE IF bytes[i] = 98 THEN "b"
        ELSE ReplacementChar]

\* format!("{:04}-{:02}-{:02} {:02}:{:02}:{:02}", y, m, d, h, i, s)
FormatDate(v) ==
    Pad(v[1], 4) \o <<"-">> \o Pad(v[2], 2) \o <<"-">> \o Pad(v[3], 2) \o <<" ">>
    \o Pad(v[4], 2) \o <<":">> \o Pad(v[5], 2) \o <<":">> \o Pad(v[6], 2)

\* a duration whose day count is padded like the other fields
FormatTime_PadDays(v) ==
    (IF v[1] THEN <<"-">> ELSE <<>>) \o Pad(v[2], 2) \o <<".">> \o Pad(v[3], 2)
    \o <<":">> \o Pad(v[4], 2) \o <<":">> \o Pad(v[5], 2)

\* format!("{}{}.{:02}:{:02}:{:02}", sign, d, h, i, s)
FormatTime(v) ==
    (IF v[1] THEN <<"-">> ELSE <<>>) \o NatToStr(v[2]) \o <<".">> \o Pad(v[3], 2)
    \o <<":">> \o Pad(v[4], 2) \o <<":">> \o Pad(v[5], 2)

S_NULL == <<"N", "U", "L", "L">>
S_ERROR == <<"E", "R", "R", "O", "R">>

\* the match over Value shared by both passes
FormatValue(slot) ==
    CASE slot.shape = "NULL" -> S_NULL
      [] slot.shape = "Bytes" -> FromUtf8Lossy(slot.v)
      [] slot.shape = "Int" -> IntToStr(slot.v[1])
      [] slot.shape = "UInt" -> NatToStr(slot.v[1])
      [] slot.shape = "Float" -> HalvesToStr(slot.v[1])
      [] slot.shape = "Double" -> HalvesToStr(slot.v[1])
      [] slot.shape = "Date" -> FormatDate(slot.v)
      [] slot.shape = "Time" -> FormatTime(slot.v)

\* first pass: the string whose length is measured
WidthText(slot) ==
    CASE slot.shape = "absent" -> S_NULL
      [] slot.shape = "error" -> S_ERROR
      [] OTHER -> FormatValue(slot)

\* a second pass whose NULL arm forgets the flag
CellValue_NullNotFlagged(slot) ==
    CASE slot.shape \in {"absent", "error"} -> [value |-> S_NULL, is_null |-> TRUE]
      [] slot.shape = "NULL" -> [value |-> S_NULL, is_null |-> FALSE]
      [] OTHER -> [value |-> FormatValue(slot), is_null |-> FALSE]

\* second pass: let (value, is_null) = match val { Some(Ok(val)) => .., _ => ("NULL", true) }
CellValue(slot) ==
    CASE slot.shape \in {"absent", "error"} -> [value |-> S_NULL, is_null |-> TRUE]
      [] slot.shape = "NULL" -> [value |-> S_NULL, is_null |-> TRUE]
      [] OTHER -> [value |-> FormatValue(slot), is_null |-> FALSE]

\* second pass: the styled string handed to Cell::new
StyleCell(cv, colors) ==
    IF colors
    THEN IF cv.is_null THEN [text |-> S_NULL, style |-> "bright_red"]
         ELSE [text |-> cv.value, style |-> "bright_white"]
    ELSE IF cv.is_null THEN [text |-> S_NULL, style |-> "plain"]
         ELSE [text |-> cv.value, style |-> "plain"]

\* str::len: the length in bytes
ByteLen1(ch) == IF ch = ReplacementChar THEN 3 ELSE 1

RECURSIVE StrLen(_)
StrLen(s) == IF s = <<>> THEN 0 ELSE ByteLen1(Head(s)) + StrLen(Tail(s))

Max(a, b) == IF a >= b THEN a ELSE b

\* the header row
HeaderRow(cols, colors) ==
    [i \in 1..Len(cols) |->
        [text |-> cols[i], style |-> IF colors THEN "bright_cyan" ELSE "plain"]]

RECURSIVE WidenColumn(_, _, _)
\* max_widths[i] after the first pass has seen rows[1..Len(rows)]
WidenColumn(w, rows, i) ==
    IF rows = <<>> THEN w
    ELSE WidenColumn(Max(w, StrLen(WidthText(Head(rows)[i]))), Tail(rows), i)

\* widths that start from zero instead of the column name's length
MaxWidths_IgnoreHeader(cols, rows) ==
    [i \in 1..Len(cols) |-> WidenColumn(0, rows, i)]

\* max_widths after the first pass
MaxWidths(cols, rows) ==
    [i \in 1..Len(cols) |-> WidenColumn(StrLen(cols[i]), rows, i)]

\* the data rows of the table
DataRows(cols, rows, colors) ==
    [r \in 1..Len(rows) |->
        [i \in 1..Len(cols) |-> StyleCell(CellValue(rows[r][i]), colors)]]

\* the table: header row, then the data rows
BuildTable(cols, rows, colors) == <<HeaderRow(cols, colors)>> \o DataRows(cols, rows, colors)

\* format!("{} {} in set ({:.2} sec)", row_count, ..)
Summary(table) ==
    LET row_count == Len(table) - 1 IN
    <<[count |-> row_count, word |-> RowWord(row_count)]>>

(***************************************************************************)
(* What the server can answer to a forwarded statement.                    *)
(***************************************************************************)
Slots ==
    { Slot("absent", <<>>), Slot("error", <<>>), Slot("NULL", <<>>),
      Slot("Bytes", <<97, 255>>), Slot("Int", <<-12>>), Slot("UInt", <<7>>),
      Slot("Float", <<3>>), Slot("Double", <<-4>>),
      Slot("Date", <<2024, 1, 2, 3, 4, 5, 6>>),
      Slot("Time", <<TRUE, 2, 3, 4, 5, 6>>), Slot("Time", <<FALSE, 10, 0, 0, 0, 0>>) }

ColName(i) == IF i = 1 THEN <<"i", "d">> ELSE <<"c">> \o NatToStr(i)

Columns(nc) == [i \in 1..nc |-> ColName(i)]

\* column metadata with the rows that follow it, each cell drawn from slots
ResultSetsOver(slots) ==
    UNION { UNION {
        { [cols |-> Columns(nc), rows |-> rows] :
            rows \in [1..nr -> [1..nc -> slots]] }
        : nr \in {k \in 0..MaxCells : nc * k <= MaxCells} } : nc \in 1..MaxCells }

\* every result set within the bound (a session that met all of them at every
\* dispatch would not be explorable: they are met under TableSpec)
ResultSets == ResultSetsOver(Slots)

\* the result sets a session sees: every shape of table, one kind of cell
SessionResultSets == ResultSetsOver({Slot("Int", <<-12>>)})

\* the "Execute the query" part of execute_query
\* (query_iter at line 111 or the row collection at line 161 can fail)
Forward(c, query, answers) ==
    LET affected_rows == c.conn_affected
        base(ret, printed, c2) ==
            [Outcome("forward", query, c2, ret, printed) EXCEPT !.forwarded = <<query>>]
        failed ==
            { [base("Err", <<>>, [c EXCEPT !.conn_affected = a]) EXCEPT
                  !.err = ServerError] : a \in ConnAfterOther(c.conn_affected) }
        nonQuery ==
            { [base("OkNone", NonQueryOutput(affected_rows, c.use_colors),
                    [c EXCEPT !.conn_affected = n]) EXCEPT !.stmtAffected = n]
              : n \in 0..MaxAffected }
        resultSet ==
            UNION { {
                LET table == BuildTable(rs.cols, rs.rows, c.use_colors) IN
                [base("OkSome", <<>>, [c EXCEPT !.conn_affected = a]) EXCEPT
                    !.max_widths = MaxWidths(rs.cols, rs.rows),
                    !.result = <<[table |-> table, summary |-> Summary(table),
                                  cols |-> rs.cols, rows |-> rs.rows]>>]
                : a \in ConnAfterOther(c.conn_affected) } : rs \in answers }
    IN failed \cup nonQuery \cup resultSet

\* a classification that compares the text without folding its case
Classify_CaseSensitive(query) ==
    LET t == Trim(query) IN
    IF t = S_status THEN "status"
    ELSE IF t = S_clear \/ t = S_bsc THEN "clear"
    ELSE IF StartsWith(t, S_use) THEN "use"
    ELSE "forward"

\* the match on query.trim().to_lowercase() and the USE test that follows it
Classify(query) ==
    LET t == ToLowercase(Trim(query)) IN
    IF t = S_status THEN "status"
    ELSE IF t = S_clear \/ t = S_bsc THEN "clear"
    ELSE IF StartsWith(t, S_use) THEN "use"
    ELSE "forward"

\* MySQLClient::execute_query: every outcome the call can have when the server
\* answers a query with one of answers
ExecuteQueryOn(c, query, answers) ==
    CASE Classify(query) = "status" -> ShowStatus(c, query)
      [] Classify(query) = "clear" -> ClearScreen(c, query)
      [] Classify(query) = "use" -> SelectDatabase(c, query)
      [] OTHER -> Forward(c, query, answers)

ExecuteQuery(c, query) == ExecuteQueryOn(c, query, SessionResultSets)

(***************************************************************************)
(* main.                                                                   *)
(***************************************************************************)
DefaultPort == 3306

\* lines the user can type at the prompt
Lines ==
    { S_status,
      S_bsc,
      S_clear,
      <<"q">>,
      <<" ", "q", ";", " ">>,
      <<";">>,
      <<"u", "s", "e", " ", "a">>,
      <<"U", "S", "E", " ", " ", "a", ";">>,
      <<"u", "s", "e", " ", "a", " ", ";">> }

\* statements given with --execute
Statements ==
    { S_status,
      <<" ", "S", "T", "A", "T", "U", "S", " ">>,
      <<"s", "t", "a", "t", "u", "s", ";">>,
      S_bsc,
      <<"C", "l", "e", "a", "r">>,
      <<"q", ";">>,
      <<"U", "S", "E", " ", " ", "a", ";">>,
      <<"u", "s", "e", " ", "a", " ", ";">>,
      <<"u", "s", "e", " ", "a", ";", " ">> }

\* a dispatch test that forgets to trim the line
ShouldDispatch_NoTrim(line) == EndsWithChar(line, ";")

S_continuation == <<" ", " ", " ", " ", "-", ">", " ">>
S_mysql == <<"m", "y", "s", "q", "l">>

\* a primary prompt that leaves the database out
FormatPrompt_NoDb(c, is_continuation) ==
    IF is_continuation
    THEN [text |-> S_continuation,
          style |-> IF c.use_colors THEN "bright_green" ELSE "plain"]
    ELSE [text |-> S_mysql \o <<" ", ">", " ">>,
          style |-> IF c.use_colors THEN "bright_green" ELSE "plain"]

\* format_prompt
FormatPrompt(c, is_continuation) ==
    IF is_continuation
    THEN [text |-> S_continuation,
          style |-> IF c.use_colors THEN "bright_green" ELSE "plain"]
    ELSE LET db_str == IF c.current_db = <<>> THEN <<>>
                       ELSE <<"(">> \o c.current_db[1] \o <<")">>
         IN [text |-> S_mysql \o db_str \o <<" ", ">", " ">>,
             style |-> IF c.use_colors THEN "bright_green" ELSE "plain"]

\* let prompt = format_prompt(&client, !query_buffer.is_empty()): the prompt the
\* loop shows in the current state
Prompt == FormatPrompt(Client, query_buffer # <<>>)

\* line.trim().ends_with(';')
ShouldDispatch(line) == EndsWithChar(Trim(line), ";")

\* a push that forgets the separating space
PushLine_NoSpace(buffer, line) == buffer \o line

\* query_buffer.push_str(&line); query_buffer.push(' ')
PushLine(buffer, line) == buffer \o line \o <<" ">>

\* query_buffer.clear() after the match on execute_query's result
ClearAfterDispatch(buffer) == <<>>

\* an Interrupted arm that keeps the buffer
ClearOnInterrupt_Keep(buffer) == buffer

\* query_buffer.clear() in the Interrupted arm
ClearOnInterrupt(buffer) == <<>>

ErrorLine(e, colors) ==
    [stream |-> "stderr", kind |-> "Error", e |-> e, style |-> BrightRed(colors)]

\* what the caller of execute_query prints for Ok(Some(result))
PrintResult(o) ==
    IF o.ret = "OkSome"
    THEN <<[stream |-> "stdout", kind |-> "Table", table |-> o.result[1].table]>>
         \o (IF o.result[1].summary # <<>>
             THEN <<[stream |-> "stdout", kind |-> "Summary",
                     summary |-> o.result[1].summary[1],
                     style |-> Green(o.client.use_colors)]>>
             ELSE <<>>)
    ELSE <<>>

\* a loop that drops the Err arm's report
PrintOutcome_Silent(o) == PrintResult(o)

\* the match on the value execute_query returned, in the interactive loop
PrintOutcome(o) ==
    IF o.ret = "Err" THEN <<ErrorLine(o.err, o.client.use_colors)>> ELSE PrintResult(o)

SetClient(c) ==
    /\ current_db' = c.current_db
    /\ use_colors' = c.use_colors
    /\ host' = c.host
    /\ port' = c.port
    /\ conn_affected' = c.conn_affected

Step(step, line, call) == [step |-> step, line |-> line, call |-> call]

Init ==
    /\ pc = "start"
    /\ query_buffer = <<>>
    /\ current_db \in {<<>>, << <<"d">> >>}
    /\ use_colors \in BOOLEAN
    /\ host = "localhost"
    /\ port = DefaultPort
    /\ conn_affected = 0
    /\ out = <<>>
    /\ last = Step("init", <<>>, <<>>)
    /\ pending = <<>>
    /\ nRead = 0
    /\ nTerminated = 0
    /\ nDispatch = 0

\* the -e branch of main: execute one statement and return
OneShot ==
    /\ pc = "start"
    /\ \E query \in Statements : \E o \in ExecuteQuery(Client, query) :
        /\ SetClient(o.client)
        /\ out' = o.printed \o PrintResult(o)
        /\ last' = Step("oneshot", query, <<o>>)
    /\ pc' = "done"
    /\ UNCHANGED <<query_buffer, pending, nRead, nTerminated, nDispatch>>

\* interactive mode: print_welcome_message, then the loop starts with an empty buffer
StartInteractive ==
    /\ pc = "start"
    /\ \E v \in LookupResults(VersionText) :
        \E a \in ConnAfterOther(conn_affected) :
            /\ conn_affected' = a
            /\ out' = IF v.r = "some"
                      THEN <<[stream |-> "stdout", kind |-> "Banner", version |-> v.v]>>
                      ELSE <<>>
    /\ query_buffer' = <<>>
    /\ pc' = "loop"
    /\ last' = Step("start", <<>>, <<>>)
    /\ UNCHANGED <<current_db, use_colors, host, port, pending, nRead, nTerminated,
                   nDispatch>>

\* the Ok(line) arm of the loop.  rl.add_history_entry(line)? precedes the
\* push; the editor is built over FileHistory, whose add keeps the entry in
\* memory and returns Ok, so the arm always goes on to the buffer.
ReadLine ==
    /\ pc = "loop"
    /\ nRead < MaxReads
    /\ \E line \in Lines :
        LET buffer == PushLine(query_buffer, line) IN
        /\ Len(buffer) <= MaxBuf
        /\ nRead' = nRead + 1
        /\ nTerminated' = nTerminated + (IF EndsWithChar(Trim(line), ";") THEN 1 ELSE 0)
        /\ IF ShouldDispatch(line)
           THEN \E o \in ExecuteQuery(Client, buffer) :
                    /\ SetClient(o.client)
                    /\ out' = o.printed \o PrintOutcome(o)
                    /\ last' = Step("dispatch", line, <<o>>)
                    /\ query_buffer' = ClearAfterDispatch(buffer)
                    /\ pending' = <<>>
                    /\ nDispatch' = nDispatch + 1
           ELSE /\ query_buffer' = buffer
                /\ pending' = Append(pending, line)
                /\ out' = <<>>
                /\ last' = Step("append", line, <<>>)
                /\ UNCHANGED <<current_db, use_colors, host, port, conn_affected,
                               nDispatch>>
    /\ pc' = "loop"

\* the Err(ReadlineError::Interrupted) arm (last.line keeps the text it discards)
Interrupt ==
    /\ pc = "loop"
    /\ out' = <<[stream |-> "stdout", kind |-> "^C"]>>
    /\ query_buffer' = ClearOnInterrupt(query_buffer)
    /\ pending' = <<>>
    /\ last' = Step("interrupt", query_buffer, <<>>)
    /\ UNCHANGED <<pc, current_db, use_colors, host, port, conn_affected, nRead,
                   nTerminated, nDispatch>>

\* an Eof arm that prints Bye and goes on reading
Eof_KeepsReading ==
    /\ pc = "loop"
    /\ out' = <<[stream |-> "stdout", kind |-> "Bye"]>>
    /\ pc' = "loop"
    /\ last' = Step("eof", <<>>, <<>>)
    /\ UNCHANGED <<query_buffer, current_db, use_colors, host, port, conn_affected,
                   pending, nRead, nTerminated, nDispatch>>

\* the Err(ReadlineError::Eof) arm
Eof ==
    /\ pc = "loop"
    /\ out' = <<[stream |-> "stdout", kind |-> "Bye"]>>
    /\ pc' = "done"
    /\ last' = Step("eof", <<>>, <<>>)
    /\ UNCHANGED <<query_buffer, current_db, use_colors, host, port, conn_affected,
                   pending, nRead, nTerminated, nDispatch>>

\* the Err(err) arm: any other line-editor error
ReadError ==
    /\ pc = "loop"
    /\ out' = <<[stream |-> "stdout", kind |-> "ReadError"]>>
    /\ pc' = "done"
    /\ last' = Step("readerror", <<>>, <<>>)
    /\ UNCHANGED <<query_buffer, current_db, use_colors, host, port, conn_affected,
                   pending, nRead, nTerminated, nDispatch>>

Next == OneShot \/ StartInteractive \/ ReadLine \/ Interrupt \/ Eof \/ ReadError

Spec == Init /\ [][Next]_vars

(***************************************************************************)
(* The table builder on its own: one statement given with --execute, the   *)
(* server answering with any result set within the bound.                  *)
(***************************************************************************)
InitTable ==
    /\ Init
    /\ current_db = <<>>

ExecuteSelect ==
    /\ pc = "start"
    /\ \E o \in ExecuteQueryOn(Client, <<"q", ";">>, ResultSets) :
        /\ SetClient(o.client)
        /\ out' = o.printed \o PrintResult(o)
        /\ last' = Step("oneshot", <<"q", ";">>, <<o>>)
    /\ pc' = "done"
    /\ UNCHANGED <<query_buffer, pending, nRead, nTerminated, nDispatch>>

TableSpec == InitTable /\ [][ExecuteSelect]_vars

(***************************************************************************)
(* The rendering of dates and durations on its own: one statement given    *)
(* with --execute, the server answering with one cell, a Date or a Time    *)
(* whose fields range over bounded values.                                 *)
(***************************************************************************)
DateSlots ==
    { Slot("Date", <<y, m, d, h, i, sec, us>>) :
        y \in {7, 2024}, m \in {1, 12}, d \in {2, 31}, h \in {3, 23}, i \in {4, 59},
        sec \in {5}, us \in {0, 6, 999999} }

TimeSlots ==
    { Slot("Time", <<neg, d, h, i, sec, us>>) :
        neg \in BOOLEAN, d \in {0, 2, 34}, h \in {3, 23}, i \in {4, 59},
        sec \in {5}, us \in {0, 6, 999999} }

\* one column, one row, one Date or Time cell
TemporalResultSets ==
    { [cols |-> Columns(1), rows |-> << <<slot>> >>] : slot \in DateSlots \cup TimeSlots }

ExecuteSelectTemporal ==
    /\ pc = "start"
    /\ \E o \in ExecuteQueryOn(Client, <<"q", ";">>, TemporalResultSets) :
        /\ SetClient(o.client)
        /\ out' = o.printed \o PrintResult(o)
        /\ last' = Step("oneshot", <<"q", ";">>, <<o>>)
    /\ pc' = "done"
    /\ UNCHANGED <<query_buffer, pending, nRead, nTerminated, nDispatch>>

RenderSpec == InitTable /\ [][ExecuteSelectTemporal]_vars

(***************************************************************************)
(* Properties.                                                             *)
(***************************************************************************)
HasCall == last.call # <<>>
Call == last.call[1]

RECURSIVE Join(_)
\* the lines, in order, each followed by one space
Join(lines) == IF lines = <<>> THEN <<>> ELSE Head(lines) \o <<" ">> \o Join(Tail(lines))

\* the text of a line without its surrounding whitespace ends with the terminator
Terminated(line) ==
    \E i \in 1..Len(line) :
        /\ line[i] = ";"
        /\ \A j \in (i + 1)..Len(line) : IsWhitespace(line[j])

\* C1: in the interactive loop execute_query is invoked once for each line read
\* whose trimmed text ends with ; and never for another line, so the number of
\* dispatches always equals the number of ;-terminated lines read so far.
C1_DispatchOncePerTerminatedLine ==
    [][ /\ nDispatch' = nTerminated'
        /\ nDispatch' - nDispatch =
              (IF nRead' = nRead + 1 /\ Terminated(last'.line) THEN 1 ELSE 0)
        /\ (nDispatch' = nDispatch + 1) <=> (last'.step = "dispatch" /\ last'.call # <<>>)
      ]_vars

C1_Witness ==
    /\ nRead = 3
    /\ nDispatch = 2
    /\ last.step = "dispatch"
    /\ last.line = <<" ", "q", ";", " ">>

\* C2: a forwarded non-query statement prints nothing when it affected zero rows
\* and prints exactly one "Query OK, N row(s) affected" line when it affected
\* N > 0 rows, N being the rows affected by that statement itself and the
\* wording singular exactly when N = 1.
C2_NonQueryReportsOwnRows ==
    (HasCall /\ Call.kind = "forward" /\ Call.ret = "OkNone") =>
        IF Call.stmtAffected = 0
        THEN Call.printed = <<>>
        ELSE /\ Len(Call.printed) = 1
             /\ Call.printed[1].kind = "QueryOK"
             /\ Call.printed[1].n = Call.stmtAffected
             /\ (Call.printed[1].word = "row") <=> (Call.stmtAffected = 1)

\* C3: a line entered in the Empty state whose trimmed, lower-cased text is
\* exactly status, clear or \c is handled as the local directive: it is not left
\* pending in the buffer and it is not forwarded to the server.
C3_DirectiveWithoutTerminator ==
    [][ ( /\ pc = "loop"
          /\ query_buffer = <<>>
          /\ nRead' = nRead + 1
          /\ ToLowercase(Trim(last'.line)) \in {S_status, S_clear, S_bsc} )
        => ( /\ query_buffer' = <<>>
             /\ last'.call # <<>>
             /\ last'.call[1].kind \in {"status", "clear"}
             /\ last'.call[1].forwarded = <<>> )
      ]_vars

\* C4: current_db changes only in a call classified as SelectDatabase(name)
\* whose switch succeeded, and then becomes exactly name; every other call
\* (failed switch, status, clear, forwarded statement) and every other step
\* leaves current_db, host, port and use_colors unchanged.
C4_SessionStateFrame ==
    [][ /\ host' = host
        /\ port' = port
        /\ use_colors' = use_colors
        /\ IF last'.call # <<>> /\ last'.call[1].kind = "use" /\ last'.call[1].switched
              /\ last'.step \in {"dispatch", "oneshot"}
           THEN current_db' = <<last'.call[1].db>>
           ELSE current_db' = current_db
      ]_vars

C4_Witness ==
    /\ HasCall
    /\ Call.kind = "use"
    /\ ~Call.switched
    /\ Call.ret = "Err"
    /\ current_db = << <<"a">> >>
    /\ nDispatch = 2

\* C5: an interrupt while the buffer is non-empty empties the buffer without
\* invoking execute_query, and the discarded text is in no statement dispatched
\* later: a dispatched statement is exactly the lines read since the buffer was
\* last emptied.
C5_InterruptDiscards ==
    [][ /\ (last'.step = "interrupt" /\ query_buffer # <<>> /\ nRead' = nRead) =>
              ( /\ query_buffer' = <<>>
                /\ last'.call = <<>>
                /\ nDispatch' = nDispatch
                /\ pc' = "loop" )
        /\ (nDispatch' = nDispatch + 1) =>
              last'.call[1].query = Join(Append(pending, last'.line))
      ]_vars

C5_Witness ==
    /\ last.step = "interrupt"
    /\ last.line = <<"q", " ">>
    /\ query_buffer = <<>>
    /\ nDispatch = 1

\* C6: while a statement is being accumulated, a line \c clears the current
\* input statement: the buffer becomes empty and nothing is dispatched.
C6_BackslashCClearsInput ==
    [][ ( /\ pc = "loop"
          /\ query_buffer # <<>>
          /\ nRead' = nRead + 1
          /\ ToLowercase(Trim(last'.line)) = S_bsc )
        => ( /\ query_buffer' = <<>>
             /\ nDispatch' = nDispatch )
      ]_vars

\* C7: when a dispatched statement fails in the executor exactly one error line
\* is reported, the buffer is empty afterwards and the loop keeps reading; the
\* loop ends only on end-of-input or a line-editor error.
C7_ErrorRecovered ==
    [][ /\ (nDispatch' = nDispatch + 1 /\ last'.call[1].ret = "Err") =>
              ( /\ out' = <<ErrorLine(last'.call[1].err, use_colors)>>
                /\ last'.call[1].err = ServerError
                /\ query_buffer' = <<>>
                /\ pc' = "loop" )
        /\ (pc = "loop" /\ pc' # "loop") => last'.step \in {"eof", "readerror"}
      ]_vars

C7_Witness ==
    /\ last.step = "dispatch"
    /\ Call.kind \in {"forward", "use"}
    /\ Call.ret = "Err"
    /\ Len(out) = 1
    /\ out[1].stream = "stderr"
    /\ query_buffer = <<>>
    /\ pc = "loop"
    /\ nRead = 2
    /\ nRead < MaxReads

\* C8: in ShowStatus the version lookup and the character-set lookup fail
\* independently: both are always performed and a status table is returned
\* whichever of them fails.
C8_StatusLookupsIndependent ==
    (HasCall /\ Call.kind = "status") =>
        /\ Call.lookups = <<"version", "charset">>
        /\ Call.ret = "OkSome"
        /\ Len(Call.result[1].table) = 4

\* the remainder after "use " with surrounding whitespace and a trailing
\* terminator removed
NameAfterUse(query) ==
    LET r == Trim(From(Trim(query), 4))
        body == IF EndsWithChar(r, ";") THEN SubSeq(r, 1, Len(r) - 1) ELSE r
    IN Trim(body)

\* C9: for every input whose trimmed, lower-cased form starts with "use " the
\* name passed to the executor, and stored in current_db on success, is the
\* remainder after "use " without its trailing ; and surrounding whitespace.
C9_UseNameTrimmed ==
    (HasCall /\ Call.kind = "use") =>
        /\ Call.db = NameAfterUse(Call.query)
        /\ Call.switched => current_db = <<NameAfterUse(Call.query)>>

\* C10: a cell slot whose value failed to decode is shown in the emitted table
\* as the literal string ERROR, not as NULL and not in the null style, and the
\* call still returns the table.
C10_DecodeErrorShownAsError ==
    (HasCall /\ Call.kind = "forward" /\ Call.result # <<>>) =>
        LET rs == Call.result[1] IN
        \A r \in 1..Len(rs.rows) : \A i \in 1..Len(rs.cols) :
            rs.rows[r][i].shape = "error" =>
                /\ Call.ret = "OkSome"
                /\ rs.table[r + 1][i].text = S_ERROR
                /\ rs.table[r + 1][i].style # "bright_red"

\* the forwarded statement of the last step returned a table
HasTable == HasCall /\ Call.kind = "forward" /\ Call.result # <<>>

\* the emitted cell for slot i of data row r (the header is table row 1)
EmittedCell(r, i) == Call.result[1].table[r + 1][i]

AllShapes ==
    {"absent", "error", "NULL", "Bytes", "Int", "UInt", "Float", "Double", "Date", "Time"}

\* C11: rendering a cell slot is defined for every slot shape; its is_null flag
\* is true exactly for NULL, absent and errored slots, and every is_null cell
\* displays the string NULL while every other cell displays its value.
C11_RenderTotalNullFlag ==
    HasTable =>
        LET rs == Call.result[1] IN
        /\ Call.ret = "OkSome"
        /\ Len(rs.table) = Len(rs.rows) + 1
        /\ \A r \in 1..Len(rs.rows) : \A i \in 1..Len(rs.cols) :
            LET slot == rs.rows[r][i]
                cv == CellValue(slot)
            IN /\ slot.shape \in AllShapes
               /\ cv.is_null \in BOOLEAN
               /\ cv.is_null <=> (slot.shape \in {"NULL", "absent", "error"})
               /\ cv.is_null => EmittedCell(r, i).text = S_NULL
               /\ cv.is_null => EmittedCell(r, i).style \in {"bright_red", "plain"}
               /\ ~cv.is_null =>
                     /\ EmittedCell(r, i).text = cv.value
                     /\ EmittedCell(r, i).style \in {"bright_white", "plain"}

C11_Witness ==
    /\ HasTable
    /\ Len(Call.result[1].cols) = 2
    /\ Len(Call.result[1].rows) = 1
    /\ Call.result[1].rows[1][1].shape = "NULL"
    /\ Call.result[1].rows[1][2].shape = "Time"
    /\ EmittedCell(1, 1).text = S_NULL
    /\ EmittedCell(1, 2).text = <<"-", "2", ".", "0", "3", ":", "0", "4", ":", "0", "5">>

\* the largest element of a non-empty set of numbers
Largest(S) == CHOOSE x \in S : \A y \in S : y <= x

\* C12: after the first pass max_widths[i] is at least the length of column i's
\* name and at least the length of the unstyled rendered string of every cell of
\* column i; it is the largest of those lengths, whatever use_colors is.
C12_WidthsCoverColumn ==
    HasTable =>
        LET rs == Call.result[1] IN
        /\ Len(Call.max_widths) = Len(rs.cols)
        /\ \A i \in 1..Len(rs.cols) :
            /\ Call.max_widths[i] >= StrLen(rs.cols[i])
            /\ \A r \in 1..Len(rs.rows) :
                /\ Call.max_widths[i] >= StrLen(WidthText(rs.rows[r][i]))
                /\ Call.max_widths[i] >= StrLen(EmittedCell(r, i).text)
            /\ Call.max_widths[i] =
                  Largest({StrLen(rs.cols[i])}
                          \cup {StrLen(WidthText(rs.rows[r][i])) : r \in 1..Len(rs.rows)})

C12_Witness ==
    /\ HasTable
    /\ use_colors
    /\ Len(Call.result[1].rows) = 2
    /\ Call.result[1].rows[1][1].shape = "Bytes"
    /\ Call.result[1].rows[2][1].shape = "UInt"
    /\ Call.max_widths = <<4>>

\* the directive the classifier's rules give, first match winning, for the
\* trimmed and case-folded text t
DirectiveOf(t) ==
    CASE t = S_status -> "status"
      [] t # S_status /\ t \in {S_clear, S_bsc} -> "clear"
      [] t \notin {S_status, S_clear, S_bsc} /\ Len(t) >= 4
            /\ <<t[1], t[2], t[3], t[4]>> = <<"u", "s", "e", " ">> -> "use"
      [] OTHER -> "forward"

\* C13: execute_query classifies the trimmed, case-folded input in the order
\* status, clear / \c, "use " prefix, anything else, and exactly one handler
\* runs: status and clear never switch database or forward a statement, a
\* database switch never forwards, and every other input is forwarded to the
\* server as the original text.
C13_ClassifyOneHandler ==
    HasCall =>
        /\ Call.kind = DirectiveOf(ToLowercase(Trim(Call.query)))
        /\ Call.kind = "status" =>
              /\ Call.lookups # <<>>
              /\ Call.forwarded = <<>>
              /\ ~Call.switched
              /\ Call.ret \in {"OkSome", "Err"}
        /\ Call.kind = "clear" =>
              /\ Call.lookups = <<>>
              /\ Call.forwarded = <<>>
              /\ ~Call.switched
              /\ Call.printed = <<ClearScreenLine>>
              /\ Call.ret = "OkNone"
        /\ Call.kind = "use" =>
              /\ Call.lookups = <<>>
              /\ Call.forwarded = <<>>
              /\ Call.switched <=> (Call.ret = "OkNone")
        /\ Call.kind = "forward" =>
              /\ Call.lookups = <<>>
              /\ ~Call.switched
              /\ Call.forwarded = <<Call.query>>
        /\ Call.query = <<" ", "S", "T", "A", "T", "U", "S", " ">> => Call.kind = "status"
        /\ Call.query = <<"C", "l", "e", "a", "r">> => Call.kind = "clear"
        /\ Call.query = <<"q", ";">> => Call.forwarded = << <<"q", ";">> >>
        /\ Call.query = <<"U", "S", "E", " ", " ", "a", ";">> =>
              (Call.kind = "use" /\ Call.db = <<"a">>)

C13_Witness ==
    /\ HasCall
    /\ Call.query = <<" ", "S", "T", "A", "T", "U", "S", " ">>
    /\ Call.kind = "status"
    /\ Call.ret = "OkSome"

\* C14: an end-of-input signal ends the session in any accumulator state: the
\* step invokes no execute_query, a partially accumulated statement is dropped
\* undispatched, and no step (no read, no dispatch) follows the end.
C14_EofTerminates ==
    [][ /\ pc # "done"
        /\ last'.step = "eof" =>
              ( /\ pc' = "done"
                /\ last'.call = <<>>
                /\ nDispatch' = nDispatch
                /\ nRead' = nRead
                /\ current_db' = current_db
                /\ conn_affected' = conn_affected )
      ]_vars

C14_Witness ==
    /\ last.step = "eof"
    /\ pc = "done"
    /\ query_buffer = <<"q", " ">>
    /\ pending = << <<"q">> >>
    /\ nDispatch = 0

\* C15: at every prompt the continuation prompt, which carries no database,
\* is shown exactly when the buffer is non-empty; otherwise (session start, just
\* dispatched, just interrupted) the primary prompt is shown with the current
\* database, which right after a successful switch is the selected name.
C15_PromptFollowsState ==
    pc = "loop" =>
        /\ (Prompt.text = S_continuation) <=> (query_buffer # <<>>)
        /\ query_buffer = <<>> =>
              /\ current_db = <<>> => Prompt.text = <<"m", "y", "s", "q", "l", " ", ">", " ">>
              /\ current_db # <<>> =>
                    Prompt.text = <<"m", "y", "s", "q", "l", "(">> \o current_db[1]
                                  \o <<")", " ", ">", " ">>
        /\ last.step \in {"start", "dispatch", "interrupt"} =>
              (query_buffer = <<>> /\ Prompt.text # S_continuation)
        /\ last.step = "append" => Prompt.text = S_continuation
        /\ (last.step = "dispatch" /\ Call.kind = "use" /\ Call.switched) =>
              Prompt.text = <<"m", "y", "s", "q", "l", "(">> \o Call.db \o <<")", " ", ">", " ">>
        /\ (last.step = "dispatch" /\ Call.switched
            /\ last.line = <<"U", "S", "E", " ", " ", "a", ";">> /\ pending = <<>>
            /\ Call.query = <<"U", "S", "E", " ", " ", "a", ";", " ">>) =>
              Prompt.text = <<"m", "y", "s", "q", "l", "(", "a", ")", " ", ">", " ">>

C15_Witness ==
    /\ pc = "loop"
    /\ last.step = "dispatch"
    /\ Call.kind = "use"
    /\ Call.switched
    /\ Call.query = <<"U", "S", "E", " ", " ", "a", ";", " ">>
    /\ Prompt.text = <<"m", "y", "s", "q", "l", "(", "a", ")", " ", ">", " ">>

DecimalDigits == {"0", "1", "2", "3", "4", "5", "6", "7", "8", "9"}

DigitValue(ch) ==
    CASE ch = "0" -> 0 [] ch = "1" -> 1 [] ch = "2" -> 2 [] ch = "3" -> 3 [] ch = "4" -> 4
      [] ch = "5" -> 5 [] ch = "6" -> 6 [] ch = "7" -> 7 [] ch = "8" -> 8 [] ch = "9" -> 9

RECURSIVE Decimal(_)
\* the number a string of decimal digits denotes
Decimal(s) ==
    IF s = <<>> THEN 0
    ELSE 10 * Decimal(SubSeq(s, 1, Len(s) - 1)) + DigitValue(s[Len(s)])

\* s is exactly w decimal digits denoting n
IsField(s, w, n) ==
    /\ Len(s) = w
    /\ \A k \in 1..Len(s) : s[k] \in DecimalDigits
    /\ Decimal(s) = n

\* t is YYYY-MM-DD HH:MM:SS for the fields of v, and nothing more
IsDateText(t, v) ==
    /\ Len(t) = 19
    /\ IsField(SubSeq(t, 1, 4), 4, v[1])
    /\ t[5] = "-"
    /\ IsField(SubSeq(t, 6, 7), 2, v[2])
    /\ t[8] = "-"
    /\ IsField(SubSeq(t, 9, 10), 2, v[3])
    /\ t[11] = " "
    /\ IsField(SubSeq(t, 12, 13), 2, v[4])
    /\ t[14] = ":"
    /\ IsField(SubSeq(t, 15, 16), 2, v[5])
    /\ t[17] = ":"
    /\ IsField(SubSeq(t, 18, 19), 2, v[6])

\* t is [-]D.HH:MM:SS for the fields of v, D unpadded, and nothing more
IsTimeText(t, v) ==
    LET sign == IF v[1] THEN 1 ELSE 0
        dots == {k \in 1..Len(t) : t[k] = "."}
    IN /\ Cardinality(dots) = 1
       /\ LET p == CHOOSE k \in dots : TRUE
              days == SubSeq(t, sign + 1, p - 1)
          IN /\ (t[1] = "-") <=> v[1]
             /\ days # <<>>
             /\ IsField(days, Len(days), v[2])
             /\ Len(days) > 1 => days[1] # "0"
             /\ Len(t) = p + 8
             /\ IsField(SubSeq(t, p + 1, p + 2), 2, v[3])
             /\ t[p + 3] = ":"
             /\ IsField(SubSeq(t, p + 4, p + 5), 2, v[4])
             /\ t[p + 6] = ":"
             /\ IsField(SubSeq(t, p + 7, p + 8), 2, v[5])

\* C16: a Date value renders as YYYY-MM-DD HH:MM:SS (year padded to four digits,
\* the other fields to two) and a Time value as [-]D.HH:MM:SS (day count
\* unpadded, - exactly when the negative flag is set); microseconds appear in
\* neither.  Time{negative, 2, 3, 4, 5} gives -2.03:04:05 and
\* Date{2024, 1, 2, 3, 4, 5} gives 2024-01-02 03:04:05.
C16_DateTimeFormat ==
    HasTable =>
        LET slot == Call.result[1].rows[1][1]
            t == EmittedCell(1, 1).text
        IN /\ slot.shape = "Date" => IsDateText(t, slot.v)
           /\ slot.shape = "Time" => IsTimeText(t, slot.v)
           /\ (slot.shape = "Time" /\ SubSeq(slot.v, 1, 5) = <<TRUE, 2, 3, 4, 5>>) =>
                 t = <<"-", "2", ".", "0", "3", ":", "0", "4", ":", "0", "5">>
           /\ (slot.shape = "Date" /\ SubSeq(slot.v, 1, 6) = <<2024, 1, 2, 3, 4, 5>>) =>
                 t = <<"2", "0", "2", "4", "-", "0", "1", "-", "0", "2", " ",
                       "0", "3", ":", "0", "4", ":", "0", "5">>

C16_Witness ==
    /\ HasTable
    /\ Call.result[1].rows[1][1] = Slot("Time", <<TRUE, 2, 3, 4, 5, 999999>>)
    /\ EmittedCell(1, 1).text = <<"-", "2", ".", "0", "3", ":", "0", "4", ":", "0", "5">>
    /\ use_colors

C18_PassesAgree ==
    HasTable =>
        LET rs == Call.result[1] IN
        \A r \in 1..Len(rs.rows) : \A i \in 1..Len(rs.cols) :
            WidthText(rs.rows[r][i]) = EmittedCell(r, i).text

====
